---- MODULE Spec2Model ----
(***************************************************************************)
(* DataClient (python/ray/util/client/dataclient.py): a threaded stream    *)
(* controller that multiplexes blocking and callback requests over one     *)
(* bidirectional gRPC stream.                                              *)
(*                                                                         *)
(* Threads: one caller thread per send call (Callers; a thread keeps no    *)
(* state from one call to the next, so a thread that makes two calls is    *)
(* two callers here), the data thread running _data_main, the thread       *)
(* calling close() and the keepalive thread.  The callers are              *)
(* numbered in the order in which their calls start.  The gRPC transport   *)
(* is the environment: it pops request_queue through                       *)
(* iter(request_queue.get, None), and the response stream yields           *)
(* responses, raises grpc.RpcError or ends.                                *)
(*                                                                         *)
(* Every `with self.cv:` and `with self.lock:` block is one step: all the  *)
(* state its body reads or writes (ready_data and _in_shutdown under cv,   *)
(* _req_id under lock) is written under that lock only, so no other        *)
(* thread can observe or disturb it half way; a thread waiting for the     *)
(* lock is a thread that has not yet taken the step.  Code outside a lock  *)
(* runs one statement per step; disconnect() and the raise after it        *)
(* belong to the step of the test that leads to them.                      *)
(***************************************************************************)
EXTENDS Integers, Sequences, FiniteSets, TLC

VARIABLES
    _req_id,               \* self._req_id
    _in_shutdown,          \* self._in_shutdown
    request_queue,         \* self.request_queue (queue.Queue), head first
    ready_data,            \* self.ready_data: req_id -> response
    asyncio_waiting_data,  \* self.asyncio_waiting_data: req_id -> callback
    stop_keepalive,        \* self.stop_keepalive (threading.Event)
    pc,                    \* position of each caller in its call
    op,                    \* which send call each caller makes
    req_id,                \* local req_id of each caller's call
    outcome,               \* how each caller's call ended
    result,                \* the response each _blocking_send returned
    data_pc,               \* position of the data thread in _data_main
    response,              \* the loop variable `response` of _data_main, while in use
    rpc,                   \* the response stream: open, error or ended
    outbound_closed,       \* iter(request_queue.get, None) has seen None
    wire,                  \* the requests handed to the transport, in order
    answered,              \* indices of wire whose response has been yielded
    unawaited,             \* a response with req_id = 0 has been yielded
    close_pc,              \* position of the thread calling close()
    calls,                 \* number of send calls started so far
    cb_log,                \* the callback invocations, in order
    disconnects            \* number of ray.util.disconnect() invocations

vars == <<_req_id, _in_shutdown, request_queue, ready_data,
          asyncio_waiting_data, stop_keepalive, pc, op, req_id, outcome,
          result, data_pc, response, rpc, outbound_closed, wire, answered,
          unawaited, close_pc, calls, cb_log, disconnects>>

\* INT32_MAX = (2**31) - 1
INT32_MAX == 2147483647

\* Bound of the model: the number of send calls.
MaxCalls == 2

Callers == 1..MaxCalls

\* The counter of a DataClient that has minted all but one of the ids below
\* INT32_MAX, for calls that are over.
NearWrap == INT32_MAX - 1

\* _blocking_send, _async_send without a callback, _async_send with one
Ops == {"blocking", "async", "async_cb"}

\* A DataRequest: its req_id field and its payload (the kind of call, and
\* the caller that built it).
Req(id, o, t) == [req_id |-> id, op |-> o, from |-> t]

\* The close sentinel close() puts on the queue.
None == [req_id |-> 0, op |-> "None", from |-> 0]

\* A DataResponse: the server echoes the request's req_id and payload kind.
Resp(r) == [req_id |-> r.req_id, op |-> r.op]

\* A response nobody waits for (req_id = 0).
UnawaitedResp == [req_id |-> 0, op |-> "unawaited"]

NoResp == [req_id |-> 0, op |-> "none"]

\* The callback _async_send of thread t was given for the request `id`.
Callback(t, id) == [owner |-> t, reg |-> id]

\* d[k] = v
Store(d, k, v) == [x \in (DOMAIN d) \cup {k} |-> IF x = k THEN v ELSE d[x]]

\* del d[k] / d.pop(k)
Remove(d, k) == [x \in (DOMAIN d) \ {k} |-> d[x]]

EmptyDict == [x \in {} |-> NoResp]

\* __init__, but for the counter
InitRest ==
    /\ _in_shutdown = FALSE
    /\ request_queue = <<>>
    /\ ready_data = EmptyDict
    /\ asyncio_waiting_data = EmptyDict
    /\ stop_keepalive = FALSE
    /\ pc = [t \in Callers |-> "idle"]
    /\ op = [t \in Callers |-> "none"]
    /\ req_id = [t \in Callers |-> 0]
    /\ outcome = [t \in Callers |-> "none"]
    /\ result = [t \in Callers |-> NoResp]
    /\ data_pc = "rd_loop"
    /\ response = NoResp
    /\ rpc = "open"
    /\ outbound_closed = FALSE
    /\ wire = <<>>
    /\ answered = {}
    /\ unawaited = FALSE
    /\ close_pc = "idle"
    /\ calls = 0
    /\ cb_log = <<>>
    /\ disconnects = 0

\* A fresh DataClient: self._req_id = 0
Init == _req_id = 0 /\ InitRest

\* A DataClient that is fresh or has been in use for long, with no call
\* under way
InitAnyId == _req_id \in {0, NearWrap} /\ InitRest

----------------------------------------------------------------------------
\* _next_id

\* Mutant: the counter wraps to 0 instead of 1.
NextIdValue_wraps_to_zero(c) == IF c >= INT32_MAX THEN 0 ELSE c + 1

\* Mutant: the wrap test compares with the wrong limit, so the counter goes
\* back to 1 at once.
NextIdValue_wraps_early(c) == IF c >= 1 THEN 1 ELSE c + 1

\* self._req_id += 1; if self._req_id > INT32_MAX: self._req_id = 1
\* (c + 1 > INT32_MAX is written c >= INT32_MAX: Python integers do not
\* overflow, the model checker's do.)
NextIdValue(c) == IF c >= INT32_MAX THEN 1 ELSE c + 1

\* Mutant: _async_send with a callback goes on as _blocking_send does, with
\* the put and the wait for the response.
AfterNextIdWithCallback_waits == "bs_put"

\* Mutant: _async_send with a callback goes to the put at once.
AfterNextIdWithCallback_put == "as_put"

\* What _async_send does after _next_id when it was given a callback:
\* `if callback: self.asyncio_waiting_data[req_id] = callback`, before the put
AfterNextIdWithCallback == "as_register"

\* req_id = self._next_id(); req.req_id = req_id
NextId(t) ==
    /\ pc[t] = "next_id"
    /\ _req_id' = NextIdValue(_req_id)
    /\ req_id' = [req_id EXCEPT ![t] = _req_id']
    /\ pc' = [pc EXCEPT ![t] =
                CASE op[t] = "blocking" -> "bs_put"
                  [] op[t] = "async" -> "as_put"
                  [] op[t] = "async_cb" -> AfterNextIdWithCallback]
    /\ UNCHANGED <<_in_shutdown, request_queue, ready_data,
                   asyncio_waiting_data, stop_keepalive, op, outcome, result,
                   data_pc, response, rpc, outbound_closed, wire, answered,
                   unawaited, close_pc, calls, cb_log, disconnects>>

----------------------------------------------------------------------------
\* _blocking_send and _async_send

\* Mutant: the send methods do not look at the shutdown flag first.
PreDispatchCheck_skipped == FALSE

\* `if self._in_shutdown:` at the head of both send methods
PreDispatchCheck == _in_shutdown

\* Mutant: the call raises without calling disconnect().
Disconnect_skipped(n) == n

\* from ray.util import disconnect; disconnect(): the procedure belongs to
\* the client session, of which only the number of invocations is kept
Disconnect(n) == n + 1

\* The head of _blocking_send / _async_send: the shutdown check, then either
\* disconnect() and raise ConnectionError, or go on to _next_id.
SendCheck(t, o) ==
    /\ pc[t] = "idle"
    /\ calls = t - 1
    /\ calls' = calls + 1
    /\ op' = [op EXCEPT ![t] = o]
    /\ IF PreDispatchCheck
          THEN /\ disconnects' = Disconnect(disconnects)
               /\ outcome' = [outcome EXCEPT ![t] = "ConnectionError_not_sent"]
               /\ pc' = [pc EXCEPT ![t] = "done"]
          ELSE /\ disconnects' = disconnects
               /\ outcome' = [outcome EXCEPT ![t] = "running"]
               /\ pc' = [pc EXCEPT ![t] = "next_id"]
    /\ UNCHANGED <<result, _req_id, _in_shutdown, request_queue, ready_data,
                   asyncio_waiting_data, stop_keepalive, req_id, data_pc,
                   response, rpc, outbound_closed, wire, answered, unawaited,
                   close_pc, cb_log>>

BlockingSendCheck(t) == SendCheck(t, "blocking")

AsyncSendCheck(t) == \E o \in Ops \ {"blocking"} : SendCheck(t, o)

\* self.request_queue.put(req) of _blocking_send
BlockingSendPut(t) ==
    /\ pc[t] = "bs_put"
    /\ request_queue' = Append(request_queue, Req(req_id[t], op[t], t))
    /\ pc' = [pc EXCEPT ![t] = "bs_cv"]
    /\ UNCHANGED <<_req_id, _in_shutdown, ready_data, asyncio_waiting_data,
                   stop_keepalive, op, req_id, outcome, result, data_pc,
                   response, rpc, outbound_closed, wire, answered, unawaited,
                   close_pc, calls, cb_log, disconnects>>

\* Mutant: the wait predicate does not look at the shutdown flag.
WaitPredicate_ignores_shutdown(t) == req_id[t] \in DOMAIN ready_data

\* lambda: req_id in self.ready_data or self._in_shutdown
WaitPredicate(t) == req_id[t] \in DOMAIN ready_data \/ _in_shutdown

\* Mutant: the entry is read and left in the table.
DelReady_keeps(d, id) == d

\* del self.ready_data[req_id]
DelReady(d, id) == Remove(d, id)

\* `with self.cv:`, entered the first time or re-entered after a notify_all:
\* wait_for evaluates the predicate; when it is false the thread waits
\* (releasing cv); when it is true the thread either raises ConnectionError
\* after disconnect() or takes and deletes its entry.
BlockingSendWait(t) ==
    /\ pc[t] = "bs_cv"
    /\ IF ~WaitPredicate(t)
          THEN /\ pc' = [pc EXCEPT ![t] = "bs_waiting"]
               /\ UNCHANGED <<ready_data, outcome, result, disconnects>>
          ELSE IF _in_shutdown
          THEN /\ pc' = [pc EXCEPT ![t] = "done"]
               /\ disconnects' = Disconnect(disconnects)
               /\ outcome' = [outcome EXCEPT ![t] = "ConnectionError_in_flight"]
               /\ UNCHANGED <<ready_data, result>>
          ELSE /\ pc' = [pc EXCEPT ![t] = "done"]
               /\ result' = [result EXCEPT ![t] = ready_data[req_id[t]]]
               /\ ready_data' = DelReady(ready_data, req_id[t])
               /\ outcome' = [outcome EXCEPT ![t] = "returned"]
               /\ disconnects' = disconnects
    /\ UNCHANGED <<_req_id, _in_shutdown, request_queue, asyncio_waiting_data,
                   stop_keepalive, op, req_id, data_pc, response, rpc,
                   outbound_closed, wire, answered, unawaited, close_pc,
                   calls, cb_log>>

\* if callback: self.asyncio_waiting_data[req_id] = callback
AsyncSendRegister(t) ==
    /\ pc[t] = "as_register"
    /\ asyncio_waiting_data' =
           Store(asyncio_waiting_data, req_id[t], Callback(t, req_id[t]))
    /\ pc' = [pc EXCEPT ![t] = "as_put"]
    /\ UNCHANGED <<_req_id, _in_shutdown, request_queue, ready_data,
                   stop_keepalive, op, req_id, outcome, result, data_pc,
                   response, rpc, outbound_closed, wire, answered, unawaited,
                   close_pc, calls, cb_log, disconnects>>

\* self.request_queue.put(req) of _async_send, which then returns
AsyncSendPut(t) ==
    /\ pc[t] = "as_put"
    /\ request_queue' = Append(request_queue, Req(req_id[t], op[t], t))
    /\ pc' = [pc EXCEPT ![t] = "done"]
    /\ outcome' = [outcome EXCEPT ![t] = "sent"]
    /\ UNCHANGED <<result, _req_id, _in_shutdown, ready_data,
                   asyncio_waiting_data, stop_keepalive, op, req_id, data_pc,
                   response, rpc, outbound_closed, wire, answered, unawaited,
                   close_pc, calls, cb_log, disconnects>>

----------------------------------------------------------------------------
\* The transport (gRPC), outbound half

\* iter(self.request_queue.get, None): the transport takes the head of the
\* queue; the sentinel None ends the outbound stream, anything else is
\* written to the wire.
\* Mutant: get hands out the item put last, and removes the oldest.
QueueGet_newest(q) == q[Len(q)]

\* queue.Queue.get: the item handed out is the oldest one
QueueGet(q) == Head(q)

TransportGet ==
    /\ rpc = "open"
    /\ ~outbound_closed
    /\ request_queue # <<>>
    /\ request_queue' = Tail(request_queue)
    /\ IF QueueGet(request_queue) = None
          THEN outbound_closed' = TRUE /\ wire' = wire
          ELSE outbound_closed' = FALSE /\ wire' = Append(wire, QueueGet(request_queue))
    /\ UNCHANGED <<_req_id, _in_shutdown, ready_data, asyncio_waiting_data,
                   stop_keepalive, pc, op, req_id, outcome, result, data_pc,
                   response, rpc, answered, unawaited, close_pc, calls,
                   cb_log, disconnects>>

----------------------------------------------------------------------------
\* _data_main

\* What `for response in resp_stream` can yield next: the response to a
\* request on the wire that has not been answered (index i of wire), or a
\* response with req_id = 0 (index 0).
NextResponses ==
    {<<Resp(wire[i]), i>> : i \in (1..Len(wire)) \ answered}
        \cup {<<UnawaitedResp, 0>>}

\* The stream yields y: bookkeeping of the transport and the loop variable.
Yield(y) ==
    /\ data_pc = "rd_loop"
    /\ rpc = "open"
    /\ IF y[2] = 0
          THEN unawaited' = TRUE /\ answered' = answered
          ELSE unawaited' = unawaited /\ answered' = answered \cup {y[2]}

\* Mutant: responses with req_id = 0 are routed like any other.
IsUnawaited_never(r) == FALSE

\* if response.req_id == 0
IsUnawaited(r) == r.req_id = 0

\* if response.req_id in self.asyncio_waiting_data
HasCallback(r) == r.req_id \in DOMAIN asyncio_waiting_data

\* Mutant: the callback is looked up and left in the table.
PopCallback_keeps(d, id) == d

\* self.asyncio_waiting_data.pop(response.req_id): the table afterwards
PopCallback(d, id) == Remove(d, id)

\* Mutant: the exception of a callback is not caught and ends the thread.
AfterCallback_uncaught(raised) == IF raised THEN "rd_done" ELSE "rd_loop"

\* try: callback(response) / except Exception: logger.exception(...): where
\* the data thread goes on after the callback returned or raised
AfterCallback(raised) == "rd_loop"

\* Mutant: notify_all() wakes nobody.
NotifyAll_wakes_nobody(p) == p

\* notify_all(): every thread waiting on cv goes to re-acquire it
NotifyAll(p) ==
    [t \in Callers |-> IF p[t] = "bs_waiting" THEN "bs_cv" ELSE p[t]]

\* req_id == 0: logged, `continue`
DataMainUnawaited ==
    /\ \E y \in NextResponses :
          /\ Yield(y)
          /\ IsUnawaited(y[1])
    /\ UNCHANGED <<_req_id, _in_shutdown, request_queue, ready_data,
                   asyncio_waiting_data, stop_keepalive, pc, op, req_id,
                   outcome, result, data_pc, response, rpc, outbound_closed,
                   wire, close_pc, calls, cb_log, disconnects>>

\* req_id in asyncio_waiting_data: pop the callback and invoke it; the
\* callback returns or raises
DataMainCallback ==
    /\ \E y \in NextResponses, raised \in BOOLEAN :
          /\ Yield(y)
          /\ ~IsUnawaited(y[1])
          /\ HasCallback(y[1])
          /\ asyncio_waiting_data' =
                 PopCallback(asyncio_waiting_data, y[1].req_id)
          /\ cb_log' = Append(cb_log,
                 [cb |-> asyncio_waiting_data[y[1].req_id], resp |-> y[1],
                  raised |-> raised])
          /\ data_pc' = AfterCallback(raised)
    /\ UNCHANGED <<_req_id, _in_shutdown, request_queue, ready_data,
                   stop_keepalive, pc, op, req_id, outcome, result, response,
                   rpc, outbound_closed, wire, close_pc, calls, disconnects>>

\* Mutant: the else branch stores the response and notifies at once,
\* without entering `with self.cv`.
DataMainReady_stores_unlocked ==
    /\ \E y \in NextResponses :
          /\ Yield(y)
          /\ ~IsUnawaited(y[1])
          /\ ~HasCallback(y[1])
          /\ ready_data' = Store(ready_data, y[1].req_id, y[1])
    /\ pc' = NotifyAll(pc)
    /\ UNCHANGED <<_req_id, _in_shutdown, request_queue,
                   asyncio_waiting_data, stop_keepalive, op, req_id,
                   outcome, result, data_pc, response, rpc, outbound_closed,
                   wire, close_pc, calls, cb_log, disconnects>>

\* else: the response goes to ready_data, for which cv is needed
DataMainReady ==
    /\ \E y \in NextResponses :
          /\ Yield(y)
          /\ ~IsUnawaited(y[1])
          /\ ~HasCallback(y[1])
          /\ response' = y[1]
    /\ data_pc' = "rd_cv"
    /\ UNCHANGED <<_req_id, _in_shutdown, request_queue, ready_data,
                   asyncio_waiting_data, stop_keepalive, pc, op, req_id,
                   outcome, result, rpc, outbound_closed, wire, close_pc,
                   calls, cb_log, disconnects>>

\* with self.cv: self.ready_data[response.req_id] = response;
\* self.cv.notify_all()
DataMainPublish ==
    /\ data_pc = "rd_cv"
    /\ ready_data' = Store(ready_data, response.req_id, response)
    /\ pc' = NotifyAll(pc)
    /\ response' = NoResp
    /\ data_pc' = "rd_loop"
    /\ UNCHANGED <<_req_id, _in_shutdown, request_queue, asyncio_waiting_data,
                   stop_keepalive, op, req_id, outcome, result, rpc,
                   outbound_closed, wire, answered, unawaited, close_pc,
                   calls, cb_log, disconnects>>

\* The stream raises grpc.RpcError (cancelled, unavailable, anything else):
\* the loop is left for the except clause.
DataMainRpcError ==
    /\ data_pc = "rd_loop"
    /\ rpc = "open"
    /\ rpc' = "error"
    /\ data_pc' = "rd_except"
    /\ UNCHANGED <<_req_id, _in_shutdown, request_queue, ready_data,
                   asyncio_waiting_data, stop_keepalive, pc, op, req_id,
                   outcome, result, response, outbound_closed, wire, answered,
                   unawaited, close_pc, calls, cb_log, disconnects>>

\* Mutant: the except clause is run again instead of ending the thread.
AfterShutdown_runs_again == "rd_except"

\* Past the except clause (which lies outside the for loop) there is only
\* logging: _data_main returns
AfterShutdown == "rd_done"

\* Mutant: the except clause also empties the table of callbacks.
DataMainShutdown_drops_callbacks ==
    /\ data_pc = "rd_except"
    /\ _in_shutdown' = TRUE
    /\ pc' = NotifyAll(pc)
    /\ data_pc' = "rd_done"
    /\ asyncio_waiting_data' = EmptyDict
    /\ UNCHANGED <<_req_id, request_queue, ready_data, stop_keepalive, op,
                   req_id, outcome, result, response, rpc, outbound_closed,
                   wire, answered, unawaited, close_pc, calls, cb_log,
                   disconnects>>

\* with self.cv: self._in_shutdown = True; self.cv.notify_all(); then
\* logging, and the thread ends
DataMainShutdown ==
    /\ data_pc = "rd_except"
    /\ _in_shutdown' = TRUE
    /\ pc' = NotifyAll(pc)
    /\ data_pc' = AfterShutdown
    /\ UNCHANGED <<_req_id, request_queue, ready_data, asyncio_waiting_data,
                   stop_keepalive, op, req_id, outcome, result, response, rpc,
                   outbound_closed, wire, answered, unawaited, close_pc,
                   calls, cb_log, disconnects>>

\* The stream ends without an error (the iterator is exhausted, which the
\* server brings about by returning once the request stream has ended): the
\* for loop is left past the try statement, and the thread ends.
DataMainStreamEnd ==
    /\ data_pc = "rd_loop"
    /\ rpc = "open"
    /\ outbound_closed
    /\ rpc' = "ended"
    /\ data_pc' = "rd_done"
    /\ UNCHANGED <<_req_id, _in_shutdown, request_queue, ready_data,
                   asyncio_waiting_data, stop_keepalive, pc, op, req_id,
                   outcome, result, response, outbound_closed, wire, answered,
                   unawaited, close_pc, calls, cb_log, disconnects>>

----------------------------------------------------------------------------
\* close and the keepalive thread

\* Mutant: close() goes from the stop signal to the joins, without the put.
AfterSetStop_skips_put == "cl_join_data"

\* After self.stop_keepalive.set() comes
\* `if self.request_queue is not None: self.request_queue.put(None)`;
\* request_queue is never None
AfterSetStop == "cl_put"

\* self.stop_keepalive.set()
CloseSetStop ==
    /\ close_pc = "idle"
    /\ stop_keepalive' = TRUE
    /\ close_pc' = AfterSetStop
    /\ UNCHANGED <<_req_id, _in_shutdown, request_queue, ready_data,
                   asyncio_waiting_data, pc, op, req_id, outcome, result,
                   data_pc, response, rpc, outbound_closed, wire, answered,
                   unawaited, calls, cb_log, disconnects>>

\* self.request_queue.put(None)
ClosePut ==
    /\ close_pc = "cl_put"
    /\ request_queue' = Append(request_queue, None)
    /\ close_pc' = "cl_join_data"
    /\ UNCHANGED <<_req_id, _in_shutdown, ready_data, asyncio_waiting_data,
                   stop_keepalive, pc, op, req_id, outcome, result, data_pc,
                   response, rpc, outbound_closed, wire, answered, unawaited,
                   calls, cb_log, disconnects>>

\* self.data_thread.join()
CloseJoinData ==
    /\ close_pc = "cl_join_data"
    /\ data_pc = "rd_done"
    /\ close_pc' = "cl_join_keepalive"
    /\ UNCHANGED <<_req_id, _in_shutdown, request_queue, ready_data,
                   asyncio_waiting_data, stop_keepalive, pc, op, req_id,
                   outcome, result, data_pc, response, rpc, outbound_closed,
                   wire, answered, unawaited, calls, cb_log, disconnects>>

\* _keepalive_main(stop_keepalive, ...): the keepalive thread has returned,
\* which it does once the event is set
KeepaliveDone == stop_keepalive

\* self.keepalive_thread.join()
CloseJoinKeepalive ==
    /\ close_pc = "cl_join_keepalive"
    /\ KeepaliveDone
    /\ close_pc' = "closed"
    /\ UNCHANGED <<_req_id, _in_shutdown, request_queue, ready_data,
                   asyncio_waiting_data, stop_keepalive, pc, op, req_id,
                   outcome, result, data_pc, response, rpc, outbound_closed,
                   wire, answered, unawaited, calls, cb_log, disconnects>>

----------------------------------------------------------------------------
\* The program

CallerStep(t) ==
    \/ BlockingSendCheck(t)
    \/ AsyncSendCheck(t)
    \/ NextId(t)
    \/ BlockingSendPut(t)
    \/ BlockingSendWait(t)
    \/ AsyncSendRegister(t)
    \/ AsyncSendPut(t)

DataMainStep ==
    \/ DataMainUnawaited
    \/ DataMainCallback
    \/ DataMainReady
    \/ DataMainPublish
    \/ DataMainRpcError
    \/ DataMainShutdown
    \/ DataMainStreamEnd

CloseStep ==
    \/ CloseSetStop
    \/ ClosePut
    \/ CloseJoinData
    \/ CloseJoinKeepalive

Next ==
    \/ \E t \in Callers : CallerStep(t)
    \/ DataMainStep
    \/ TransportGet
    \/ CloseStep

Spec == Init /\ [][Next]_vars

\* The same program, started from either counter value
IdSpec == InitAnyId /\ [][Next]_vars

\* The threads of the program are scheduled fairly: the data thread runs
\* its except clause and its `with self.cv` blocks, and a caller that can
\* enter `with self.cv` does.
FairSpec ==
    /\ Spec
    /\ WF_vars(DataMainPublish)
    /\ WF_vars(DataMainShutdown)
    /\ \A t \in Callers : WF_vars(BlockingSendWait(t))

\* Only the threads calling _async_send are scheduled fairly: a caller that
\* can take its next step (the lock of _next_id is free again after every
\* step, the dict store and the put on the unbounded queue never block)
\* takes it.  Nothing is assumed of the transport or the data thread.
AsyncFairSpec ==
    /\ Spec
    /\ \A t \in Callers :
          /\ WF_vars(NextId(t))
          /\ WF_vars(AsyncSendRegister(t))
          /\ WF_vars(AsyncSendPut(t))

\* FairSpec, and the threads calling _blocking_send keep running up to the
\* wait: _next_id and the put never block for long.
WaitFairSpec ==
    /\ FairSpec
    /\ \A t \in Callers :
          /\ WF_vars(NextId(t))
          /\ WF_vars(BlockingSendPut(t))

----------------------------------------------------------------------------
\* What the properties below speak of

\* Caller t has stamped its request: _next_id has returned to it.
Stamped(t) == pc[t] \notin {"idle", "next_id"} /\ outcome[t] # "ConnectionError_not_sent"

\* The stream has yielded the response to caller t's request.
Answered(t) == \E i \in answered : wire[i].from = t

\* Caller t's request is outstanding: stamped, and not answered yet.
Outstanding(t) == Stamped(t) /\ ~Answered(t)

\* Caller t returns from _blocking_send normally in this step.
Returns(t) == outcome[t] # "returned" /\ outcome'[t] = "returned"

----------------------------------------------------------------------------
\* C1: every _blocking_send that returns normally returns the response whose
\* req_id is the id the call stamped on its request, the entry for that id
\* is gone from ready_data when it returns, and the response it returns has
\* not been returned to any other caller.
C1_BlockingReturnsOwnResponse ==
    [][\A t \in Callers :
          Returns(t) =>
              /\ result'[t].req_id = req_id[t]
              /\ req_id[t] \notin DOMAIN ready_data'
              /\ \A u \in Callers \ {t} :
                    outcome[u] = "returned" => result[u] # result'[t]]_vars

\* Two blocking calls have both returned, each with its own response, and
\* ready_data is empty again.
C1_Witness ==
    \E t, u \in Callers :
        /\ t # u
        /\ outcome[t] = "returned" /\ outcome[u] = "returned"
        /\ result[t].req_id = req_id[t] /\ result[u].req_id = req_id[u]
        /\ ready_data = EmptyDict

\* C2: whenever the data thread has ended, _in_shutdown is true.
C2_ReaderEndImpliesShutdown == data_pc = "rd_done" => _in_shutdown

\* Caller t is blocked in _blocking_send: it waits on cv, or it is about to
\* enter `with self.cv` to wait.
Blocked(t) == pc[t] \in {"bs_cv", "bs_waiting"}

\* C3 as stated: when the data thread has observed a terminal transport
\* error, every caller blocked in _blocking_send at that moment eventually
\* fails with the ConnectionError of a terminated channel.
C3_Original ==
    \A t \in Callers :
        (data_pc = "rd_except" /\ Blocked(t))
            ~> (outcome[t] = "ConnectionError_in_flight")

\* C3, amended: when the data thread has observed a terminal transport
\* error, every caller blocked in _blocking_send at that moment eventually
\* leaves the call, and it fails with the ConnectionError of a terminated
\* channel if its response is not in ready_data at that moment; every caller
\* still blocked once _in_shutdown is set fails with that ConnectionError.
C3_BlockedCallersFail ==
    \A t \in Callers :
        /\ (data_pc = "rd_except" /\ Blocked(t)) ~> (pc[t] = "done")
        /\ (Blocked(t)
               /\ \/ data_pc = "rd_except" /\ req_id[t] \notin DOMAIN ready_data
                  \/ _in_shutdown)
               ~> (outcome[t] = "ConnectionError_in_flight")

\* Two callers that were blocked have both failed with the ConnectionError
\* of a terminated channel.
C3_Witness ==
    /\ _in_shutdown
    /\ \A t \in Callers :
          op[t] = "blocking" /\ outcome[t] = "ConnectionError_in_flight"

----------------------------------------------------------------------------
\* Caller t makes the first step of its send call in this step.
Starts(t) == pc[t] = "idle" /\ pc'[t] # "idle"

\* C4: a _blocking_send or _async_send that starts when _in_shutdown is true
\* fails at once with ConnectionError and leaves _req_id, request_queue,
\* ready_data and asyncio_waiting_data as they were.
C4_RejectedAfterShutdown ==
    [][\A t \in Callers :
          (Starts(t) /\ _in_shutdown) =>
              /\ outcome'[t] = "ConnectionError_not_sent"
              /\ pc'[t] = "done"
              /\ UNCHANGED <<_req_id, request_queue, ready_data,
                             asyncio_waiting_data>>]_vars

\* A _blocking_send and an _async_send have both been rejected after
\* shutdown, and nothing was minted or enqueued.
C4_Witness ==
    /\ _in_shutdown
    /\ \E t, u \in Callers :
          /\ op[t] = "blocking" /\ outcome[t] = "ConnectionError_not_sent"
          /\ op[u] = "async_cb" /\ outcome[u] = "ConnectionError_not_sent"
    /\ _req_id = 0
    /\ request_queue = <<>>

\* C5: the response to a request of _async_send without a callback is
\* dropped: its id never appears in ready_data or asyncio_waiting_data.
C5_FireAndForgetDropped ==
    \A t \in Callers :
        (op[t] = "async" /\ Stamped(t)) =>
            /\ req_id[t] \notin DOMAIN ready_data
            /\ req_id[t] \notin DOMAIN asyncio_waiting_data

\* The entries of cb_log that invoke the callback of caller t.
Invocations(t) == {i \in 1..Len(cb_log) : cb_log[i].cb.owner = t}

CallbackRaises ==
    /\ Len(cb_log') = Len(cb_log) + 1
    /\ cb_log'[Len(cb_log')].raised

\* C7: when a callback raises, the data thread stays in its loop on the open
\* stream and _in_shutdown is not set; while the stream is open the data
\* thread never ends, so later responses are still routed.
C7_CallbackFaultIsolated ==
    /\ [](rpc = "open" => data_pc \in {"rd_loop", "rd_cv"})
    /\ [][CallbackRaises =>
             /\ data_pc' = "rd_loop"
             /\ rpc' = "open"
             /\ _in_shutdown' = FALSE]_vars

\* After a callback raised, the response for another id was routed to its
\* callback, and the data thread is still in its loop.
C7_Witness ==
    /\ Len(cb_log) = 2
    /\ cb_log[1].raised
    /\ cb_log[2].cb.reg # cb_log[1].cb.reg
    /\ data_pc = "rd_loop"
    /\ ~_in_shutdown

\* C8: a response with req_id = 0 is discarded: the step that takes it from
\* the stream invokes no callback, wakes no caller and leaves ready_data and
\* asyncio_waiting_data as they were; 0 is never a key of either table.
C8_UnawaitedDiscarded ==
    /\ [](0 \notin DOMAIN ready_data /\ 0 \notin DOMAIN asyncio_waiting_data)
    /\ [][(unawaited' /\ ~unawaited) =>
             UNCHANGED <<ready_data, asyncio_waiting_data, cb_log, pc,
                         data_pc, response>>]_vars

\* A response with req_id = 0 has been taken from the stream while a caller
\* was waiting on cv, and the caller still waits.
C8_Witness ==
    /\ unawaited
    /\ \E t \in Callers : pc[t] = "bs_waiting"
    /\ ready_data = EmptyDict

\* _next_id returns to caller t in this step.
Mints(t) == pc[t] = "next_id" /\ pc'[t] # "next_id"

\* C9: _next_id returns a value in 1..INT32_MAX, never 0: the counter plus
\* one, except that it returns 1 when the counter is INT32_MAX; on a fresh
\* instance it returns 1.
C9_NextIdRange ==
    [][\A t \in Callers :
          Mints(t) =>
              /\ req_id'[t] \in 1..INT32_MAX
              /\ req_id'[t] # 0
              /\ req_id'[t] = _req_id'
              /\ IF _req_id = INT32_MAX
                    THEN req_id'[t] = 1
                    ELSE req_id'[t] = _req_id + 1
              /\ _req_id = 0 => req_id'[t] = 1]_vars

\* The counter has wrapped: one call was given INT32_MAX and the next 1.
C9_Witness ==
    \E t, u \in Callers :
        /\ Stamped(t) /\ Stamped(u)
        /\ req_id[t] = INT32_MAX
        /\ req_id[u] = 1
        /\ _req_id = 1

\* C10: no two requests that are outstanding at the same time carry the
\* same id.
C10_OutstandingIdsDistinct ==
    \A t, u \in Callers :
        (t # u /\ Outstanding(t) /\ Outstanding(u)) => req_id[t] # req_id[u]

\* Two requests are outstanding together, minted on either side of the wrap.
C10_Witness ==
    \E t, u \in Callers :
        /\ Outstanding(t) /\ Outstanding(u)
        /\ req_id[t] = INT32_MAX
        /\ req_id[u] = 1

----------------------------------------------------------------------------
\* C11: _in_shutdown is a one-way latch: it is false at construction, no step
\* of any thread takes it from true to false, only the except clause of the
\* data thread changes it, and that clause runs at most once: once the flag
\* is set the data thread has ended, and an ended thread stays ended.
C11_ShutdownLatch ==
    /\ ~_in_shutdown
    /\ [](_in_shutdown => data_pc = "rd_done")
    /\ [][/\ _in_shutdown => _in_shutdown'
          /\ _in_shutdown' # _in_shutdown => data_pc = "rd_except"
          /\ data_pc = "rd_done" => data_pc' = "rd_done"]_vars

\* The flag was set, and afterwards a send call was rejected and close() ran
\* to its end: the flag is still set.
C11_Witness ==
    /\ _in_shutdown
    /\ close_pc = "closed"
    /\ \E t \in Callers : outcome[t] = "ConnectionError_not_sent"
    /\ \E t \in Callers : outcome[t] = "ConnectionError_in_flight"

\* Everything ever put on request_queue, in the order of the puts, if the
\* queue is read first in, first out: what the transport was handed, the
\* sentinel if it has been taken, and what is still queued.
Pushed ==
    wire \o (IF outbound_closed THEN <<None>> ELSE <<>>) \o request_queue

\* C12: the transport is handed the requests in the order in which they were
\* put on request_queue: a step that writes to the wire writes the oldest
\* queued item and takes it off the queue, so that no step reorders, repeats
\* or loses a put item; the sentinel is never written to the wire, and once
\* it has been taken the outbound stream is closed for good and nothing put
\* after it is written.
C12_FifoToTransport ==
    /\ [](\A i \in 1..Len(wire) : wire[i] # None)
    /\ [][/\ \/ Pushed' = Pushed
             \/ /\ Len(Pushed') = Len(Pushed) + 1
                /\ SubSeq(Pushed', 1, Len(Pushed)) = Pushed
          /\ wire' # wire =>
                /\ ~outbound_closed
                /\ wire' = Append(wire, Head(request_queue))
                /\ request_queue' = Tail(request_queue)
          /\ outbound_closed => (outbound_closed' /\ wire' = wire)]_vars

\* One request was written to the wire, then the sentinel was taken, and a
\* request put after the sentinel stays in the queue.
C12_Witness ==
    /\ outbound_closed
    /\ Len(wire) = 1
    /\ Len(request_queue) = 1
    /\ request_queue[1] # None
    /\ data_pc = "rd_done"

\* Caller t's call has failed with the ConnectionError of a terminated
\* channel, before dispatch or in flight.
Failed(t) ==
    outcome[t] \in {"ConnectionError_not_sent", "ConnectionError_in_flight"}

\* C13: a step in which a send call fails with the ConnectionError of a
\* terminated channel invokes disconnect() once, whether the call is rejected
\* before dispatch or fails in flight; disconnect() is invoked by no other
\* step, in particular not by a call that returns normally; so there are as
\* many invocations as failed calls.
C13_DisconnectOnFailure ==
    /\ [](disconnects = Cardinality({t \in Callers : Failed(t)}))
    /\ [][\A t \in Callers :
             /\ (~Failed(t) /\ Failed(t)') =>
                    disconnects' = disconnects + 1
             /\ (outcome[t] = "running" /\ outcome'[t] \in {"returned", "sent"})
                    => disconnects' = disconnects]_vars

\* One call was rejected before dispatch and one failed in flight, and
\* disconnect() has been invoked twice.
C13_Witness ==
    /\ disconnects = 2
    /\ \E t, u \in Callers :
          /\ outcome[t] = "ConnectionError_not_sent" /\ op[t] \in {"async", "async_cb"}
          /\ outcome[u] = "ConnectionError_in_flight"

\* C14: a blocking call whose response is in ready_data (where it can only
\* have been put before _in_shutdown was set, the data thread being over
\* once the flag is set) leaves the call only by returning that response and
\* removing the entry; it does not fail with the ConnectionError.
C14_ArrivedResponseReturned ==
    [][\A t \in Callers :
          (/\ Blocked(t)
           /\ req_id[t] \in DOMAIN ready_data
           /\ pc'[t] = "done") =>
              /\ outcome'[t] = "returned"
              /\ result'[t] = ready_data[req_id[t]]
              /\ req_id[t] \notin DOMAIN ready_data']_vars

\* The requests that have been put on request_queue and not lost: those
\* still queued and those handed to the transport.
Dispatched ==
    {request_queue[i] : i \in 1..Len(request_queue)}
        \cup {wire[i] : i \in 1..Len(wire)}

\* C15: whenever a request of _async_send with a callback is in
\* request_queue or has been handed to the transport, its id is in
\* asyncio_waiting_data or its callback has been invoked; the response to
\* such a request is never taken for ready_data.
C15_RegisteredBeforeDispatch ==
    /\ \A r \in Dispatched :
          r.op = "async_cb" =>
              \/ /\ r.req_id \in DOMAIN asyncio_waiting_data
                 /\ asyncio_waiting_data[r.req_id] = Callback(r.from, r.req_id)
              \/ Invocations(r.from) # {}
    /\ response.op # "async_cb"
    /\ \A id \in DOMAIN ready_data : ready_data[id].op # "async_cb"

\* The callback of one request has been invoked with its response, and
\* another request with a callback is on the wire, unanswered, with its
\* callback registered.
C15_Witness ==
    \E t, u \in Callers :
        /\ op[t] = "async_cb" /\ Invocations(t) # {}
        /\ op[u] = "async_cb" /\ ~Answered(u)
        /\ \E i \in 1..Len(wire) : wire[i].from = u
        /\ req_id[u] \in DOMAIN asyncio_waiting_data

\* C16: close() sets the keepalive stop signal, then puts the sentinel on
\* request_queue, then joins the data thread, then joins the keepalive
\* thread; no step of close() changes _in_shutdown, ready_data,
\* asyncio_waiting_data or _req_id.
C16_CloseOrderAndFrame ==
    /\ [](/\ close_pc # "idle" => stop_keepalive
          /\ close_pc \in {"cl_join_data", "cl_join_keepalive", "closed"} =>
                \E i \in 1..Len(Pushed) : Pushed[i] = None
          /\ close_pc \in {"cl_join_keepalive", "closed"} => data_pc = "rd_done"
          /\ close_pc = "closed" => KeepaliveDone)
    /\ [][close_pc' # close_pc =>
             /\ UNCHANGED <<_in_shutdown, ready_data, asyncio_waiting_data,
                            _req_id>>
             /\ <<close_pc, close_pc'>> \in
                    {<<"idle", "cl_put">>, <<"cl_put", "cl_join_data">>,
                     <<"cl_join_data", "cl_join_keepalive">>,
                     <<"cl_join_keepalive", "closed">>}
             /\ close_pc = "idle" =>
                    (stop_keepalive' /\ request_queue' = request_queue)
             /\ close_pc = "cl_put" =>
                    request_queue' = Append(request_queue, None)
             /\ close_pc \in {"cl_join_data", "cl_join_keepalive"} =>
                    UNCHANGED <<stop_keepalive, request_queue>>]_vars

\* close() has run to its end on a client that has minted ids and holds a
\* registered callback; _in_shutdown is still false.
C16_Witness ==
    /\ close_pc = "closed"
    /\ ~_in_shutdown
    /\ _req_id = MaxCalls
    /\ asyncio_waiting_data # EmptyDict
    /\ ready_data # EmptyDict

----------------------------------------------------------------------------
\* Locks and the state they guard

\* The step is the body of a `with self.cv:` block (of _data_main's else
\* branch, of its except clause, or of _blocking_send).
HoldsCv ==
    \/ DataMainPublish
    \/ DataMainShutdown
    \/ \E t \in Callers : BlockingSendWait(t)

\* The step is the body of `with self.lock:` in _next_id.
HoldsLock == \E t \in Callers : NextId(t)

\* The step reads or writes ready_data: it changes it, or it is the wait of
\* _blocking_send, whose predicate looks the id up.
AccessesReady ==
    \/ ready_data' # ready_data
    \/ \E t \in Callers : BlockingSendWait(t)

\* The step reads or writes asyncio_waiting_data: it changes it, or it is the
\* data thread's test `response.req_id in self.asyncio_waiting_data` on a
\* response with a non-zero id.
AccessesCallbacks ==
    \/ asyncio_waiting_data' # asyncio_waiting_data
    \/ answered' # answered

\* The step reads _in_shutdown: the head of a send call, or the wait of
\* _blocking_send.
ReadsShutdown ==
    \/ \E t \in Callers : Starts(t)
    \/ \E t \in Callers : BlockingSendWait(t)

\* The step puts an item on request_queue.
Pushes == Len(request_queue') > Len(request_queue)

\* C17 as stated: every step that reads or writes ready_data,
\* asyncio_waiting_data or _in_shutdown holds cv, every step that reads or
\* writes _req_id holds the counter's lock, and no step that puts an item on
\* request_queue holds cv.
C17_Original ==
    [][/\ (\/ AccessesReady
           \/ AccessesCallbacks
           \/ ReadsShutdown
           \/ _in_shutdown' # _in_shutdown) => HoldsCv
       /\ _req_id' # _req_id => HoldsLock
       /\ Pushes => ~HoldsCv]_vars

\* C17, amended: every step that reads or writes ready_data holds cv, and so
\* do the step that writes _in_shutdown and the read of _in_shutdown after
\* the wait; every step that reads or writes _req_id holds the counter's
\* lock; no step that puts an item on request_queue holds cv.  The test of
\* _in_shutdown at the head of a send call, and every access to
\* asyncio_waiting_data (the registration by _async_send, the lookup and the
\* pop by the data thread), hold no lock.
C17_LockDiscipline ==
    [][/\ (AccessesReady \/ _in_shutdown' # _in_shutdown) => HoldsCv
       /\ _req_id' # _req_id => HoldsLock
       /\ Pushes => ~HoldsCv
       /\ (ReadsShutdown /\ ~HoldsCv) => \E t \in Callers : Starts(t)
       /\ (AccessesCallbacks \/ \E t \in Callers : Starts(t)) =>
              (~HoldsCv /\ ~HoldsLock)]_vars

\* A _blocking_send has returned its response, which went through
\* ready_data, and the callback of an _async_send has been invoked.
C17_Witness ==
    \E t, u \in Callers :
        /\ op[t] = "blocking" /\ outcome[t] = "returned"
        /\ op[u] = "async_cb" /\ Invocations(u) # {}
        /\ _req_id = MaxCalls

----------------------------------------------------------------------------
\* Caller t is in a call of _async_send.
InAsyncSend(t) == op[t] \in {"async", "async_cb"}

\* The number of items caller t has put on request_queue.
PutsOf(t) == Cardinality({i \in 1..Len(Pushed) : Pushed[i].from = t})

\* C18: every call of _async_send ends, whatever the transport and the data
\* thread do: it is never at the wait on cv, it ends either with the
\* ConnectionError of the pre-dispatch check, having put nothing, or by
\* returning after exactly one put; without a callback it adds no entry to
\* asyncio_waiting_data.
C18_AsyncSendTerminates ==
    \A t \in Callers :
        /\ InAsyncSend(t) ~> (pc[t] = "done")
        /\ [](InAsyncSend(t) =>
                /\ pc[t] \in {"next_id", "as_register", "as_put", "done"}
                /\ PutsOf(t) <= 1
                /\ pc[t] = "done" =>
                      \/ outcome[t] = "ConnectionError_not_sent" /\ PutsOf(t) = 0
                      \/ outcome[t] = "sent" /\ PutsOf(t) = 1
                /\ op[t] = "async" =>
                      \A id \in DOMAIN asyncio_waiting_data :
                          asyncio_waiting_data[id].owner # t)

\* Two calls of _async_send, one with a callback, have returned while their
\* requests are still in the queue: the transport has taken nothing and no
\* response has come.
C18_Witness ==
    \E t, u \in Callers :
        /\ op[t] = "async" /\ outcome[t] = "sent"
        /\ op[u] = "async_cb" /\ outcome[u] = "sent"
        /\ Len(request_queue) = 2
        /\ wire = <<>>
        /\ DOMAIN asyncio_waiting_data = {req_id[u]}

----------------------------------------------------------------------------
\* Caller t is in a call of _blocking_send that has passed the shutdown check
\* and has not ended.
InBlockingSend(t) ==
    op[t] = "blocking" /\ pc[t] \in {"next_id", "bs_put", "bs_cv", "bs_waiting"}

----------------------------------------------------------------------------
\* C20: a callback is invoked only by the data thread, in its loop on the
\* open stream, in the step that takes the response with the callback's id
\* from the stream; a callback whose response has not come is never invoked;
\* once the data thread has left its loop (stream error, shutdown, end of
\* the stream) no callback is invoked any more and every entry of
\* asyncio_waiting_data stays where it is.
C20_CallbackOnlyOnResponse ==
    /\ [](\A t \in Callers : Invocations(t) # {} => Answered(t))
    /\ [][/\ cb_log' # cb_log =>
                /\ data_pc = "rd_loop" /\ rpc = "open" /\ ~_in_shutdown
                /\ Len(cb_log') = Len(cb_log) + 1
                /\ SubSeq(cb_log', 1, Len(cb_log)) = cb_log
                /\ \E i \in answered' \ answered :
                      /\ cb_log'[Len(cb_log')].resp = Resp(wire[i])
                      /\ cb_log'[Len(cb_log')].cb =
                             asyncio_waiting_data[wire[i].req_id]
          /\ (rpc # "open" \/ _in_shutdown') =>
                /\ cb_log' = cb_log
                /\ \A id \in DOMAIN asyncio_waiting_data :
                      /\ id \in DOMAIN asyncio_waiting_data'
                      /\ asyncio_waiting_data'[id] = asyncio_waiting_data[id]]_vars

\* Shutdown has latched and the data thread has ended; one callback was
\* invoked with its response before, another, whose request is on the wire
\* and whose response never came, is still registered and was not invoked.
C20_Witness ==
    /\ _in_shutdown
    /\ data_pc = "rd_done"
    /\ \E t, u \in Callers :
          /\ op[t] = "async_cb" /\ Invocations(t) # {}
          /\ op[u] = "async_cb" /\ Invocations(u) = {}
          /\ \E i \in 1..Len(wire) : wire[i].from = u
          /\ req_id[u] \in DOMAIN asyncio_waiting_data

====
